---- MODULE Spec2Model ----
\* Model of CARPMLM.train_step (carp/pytorch/model/architectures/carp_mlm.py):
\* the microbatched, gradient-cached contrastive training step.
\*
\* Values that the numeric backend computes are modelled by what they depend
\* on: an embedding by the tower that produced it, the batch row it was
\* computed from and whether it carries gradient history; a loss / accuracy
\* scalar by the loss computation that produced it; a parameter gradient by
\* the bag of contributions that backward calls have added to it.
EXTENDS Integers, Sequences, FiniteSets, Bags, TLC

\* ---------------------------------------------------------------- bounds
MaxN == 4
MaxM == 3
MaxCalls == 2

\* ------------------------------------------------------------- constants
\* grad_clip value that disables clipping (carp_mlm.py:87)
NoClip == -1
\* values a grad_clip field of a config can hold: the sentinel or a threshold
ClipValues == {NoClip, 1, 2}
\* log(1/0.07), log(1/100), log(100) in thousandths (carp_mlm.py:33-38)
InitLogitScale == 2659
clamp_min == -4605
clamp_max == 4605
\* values the optimizer can move logit_scale to: below, inside, above the clamp
LogitValues == {-5000, InitLogitScale, 5000}

VARIABLES
  pc,              \* position inside train_step, "idle" between calls
  calls,           \* number of train_step calls started
  status,          \* "none" | "running" | "returned" | "raised"
  result,          \* mapping returned by the last completed call
  selfConfig,      \* self.config (ModelConfig) : [grad_clip]
  logit_scale,     \* self.logit_scale
  grad,            \* parameter .grad buffers: bag of contributions
  passages,        \* <<tokens, masks>> of the passage batch
  reviews,         \* <<tokens, masks>> of the review batch
  config,          \* train config passed to the call: [microbatch_size, grad_clip]
  microbatch_inds, pass_mbs, rev_mbs,
  pass_encs, rev_encs, pass_tmp, rev_tmp,
  index,           \* loop variable of the running sweep
  loss, forward_acc,
  lossArgs,        \* arguments of the last contrastive_loss call
  log              \* operations performed by the current call, in order

vars == <<pc, calls, status, result, selfConfig, logit_scale, grad, passages,
          reviews, config, microbatch_inds, pass_mbs, rev_mbs, pass_encs,
          rev_encs, pass_tmp, rev_tmp, index, loss, forward_acc, lossArgs, log>>

\* ---------------------------------------------------------------- helpers
Min(a, b) == IF a < b THEN a ELSE b

CeilDiv(a, b) == (a + b - 1) \div b

\* torch.cat over a list of batches of vectors
RECURSIVE Cat(_)
Cat(l) == IF l = <<>> THEN <<>> ELSE Head(l) \o Cat(Tail(l))

\* a local name that has not been assigned
Unbound == [kind |-> "unbound", call |-> 0, sweep |-> "none", index |-> -1]

Scalar(kind, sweep, i) == [kind |-> kind, call |-> calls, sweep |-> sweep, index |-> i]

Event(op, sweep, i, arg) == [op |-> op, sweep |-> sweep, index |-> i, arg |-> arg]

\* a batch of n rows: tokens and masks, row e of batch b
Batch(b, n) == << [e \in 1..n |-> [batch |-> b, ex |-> e - 1]],
                  [e \in 1..n |-> [batch |-> b, ex |-> e - 1]] >>

\* carp.util.generate_indices(total_size, batch_size, shuffle=False):
\* ordered groups of at most batch_size consecutive indices of [0, total_size)
generate_indices(total_size, batch_size) ==
  [g \in 1..CeilDiv(total_size, batch_size) |->
     [k \in 1..Min(batch_size, total_size - (g - 1) * batch_size) |->
        (g - 1) * batch_size + k - 1]]

\* tensor[i] for an index tensor i: the rows at the positions of i
Gather(rows, inds) == [k \in 1..Len(inds) |-> rows[inds[k] + 1]]

\* [(batch[0][i], batch[1][i]) for i in inds]
SplitPass(batch, inds) ==
  [g \in 1..Len(inds) |-> <<Gather(batch[1], inds[g]), Gather(batch[2], inds[g])>>]

SplitRevReversed(batch, inds) ==
  [g \in 1..Len(inds) |->
     <<Gather(batch[1], inds[Len(inds) + 1 - g]), Gather(batch[2], inds[Len(inds) + 1 - g])>>]

SplitRev(batch, inds) ==
  [g \in 1..Len(inds) |-> <<Gather(batch[1], inds[g]), Gather(batch[2], inds[g])>>]

\* one tower's forward over a microbatch: one embedding per row
Encode(tower, toks, masks, withGrad) ==
  [k \in 1..Len(toks) |->
     [tower |-> tower, batch |-> toks[k].batch, ex |-> toks[k].ex,
      mask |-> masks[k].ex, grad |-> withGrad]]

encode_passages(toks, masks) == Encode("passage", toks, masks, TRUE)
encode_reviews(toks, masks) == Encode("review", toks, masks, TRUE)

\* calculate_embeddings: both towers over every microbatch under no_grad
calculate_embeddings(pmbs, rmbs) ==
  << [g \in 1..Len(pmbs) |-> Encode("passage", pmbs[g][1], pmbs[g][2], FALSE)],
     [g \in 1..Len(rmbs) |-> Encode("review", rmbs[g][1], rmbs[g][2], FALSE)] >>

\* tmp = encs.copy(); tmp[index] = emb     (index is 0-based)
CopyThenSetAliased(encs, i, emb) ==
  [orig |-> [encs EXCEPT ![i + 1] = emb], tmp |-> [encs EXCEPT ![i + 1] = emb]]

CopyThenSet(encs, i, emb) ==
  [orig |-> encs, tmp |-> [encs EXCEPT ![i + 1] = emb]]

\* parameters of each tower
TowerParams(tower) ==
  IF tower = "passage" THEN {"passage_encoder", "pass_projector"}
                       ELSE {"review_encoder", "rev_projector"}

PassParams == TowerParams("passage")
RevParams == TowerParams("review")
AllParams == PassParams \cup RevParams \cup {"logit_scale"}

\* the clamp passes gradient to logit_scale only inside [clamp_min, clamp_max]
ScaleLive(s) == clamp_min <= s /\ s <= clamp_max

Contribution(param, unit, c) == [param |-> param, unit |-> unit, call |-> c]

\* scaler.scale(contrastive_loss(P, R)).backward(): every parameter that the
\* loss depends on through a gradient-tracked path receives its gradient; a
\* tower parameter receives the part that flows through each live embedding,
\* logit_scale the derivative of the whole loss
Backward(P, R, s, c) ==
  SetToBag({Contribution(p, P[k].ex, c) :
              p \in PassParams, k \in {j \in 1..Len(P) : P[j].grad}})
  (+) SetToBag({Contribution(p, R[k].ex, c) :
              p \in RevParams, k \in {j \in 1..Len(R) : R[j].grad}})
  (+) (IF ScaleLive(s) /\ Len(P) > 0
       THEN SetToBag({Contribution("logit_scale", -1, c)}) ELSE EmptyBag)

\* gradient of one full-batch forward/backward with everything differentiable
FullBatchGrad(n, s, c) ==
  SetToBag({Contribution(p, e, c) : p \in PassParams \cup RevParams, e \in 0..(n - 1)})
  (+) (IF ScaleLive(s) /\ n > 0
       THEN SetToBag({Contribution("logit_scale", -1, c)}) ELSE EmptyBag)

\* ------------------------------------------------------------------ state
Init ==
  /\ pc = "idle" /\ calls = 0 /\ status = "none"
  /\ result = [k \in {} |-> Unbound]
  /\ selfConfig \in [grad_clip : ClipValues]
  /\ logit_scale = InitLogitScale
  /\ grad = EmptyBag
  /\ passages = Batch("passages", 0) /\ reviews = Batch("reviews", 0)
  /\ config = [microbatch_size |-> 1, grad_clip |-> NoClip]
  /\ microbatch_inds = <<>> /\ pass_mbs = <<>> /\ rev_mbs = <<>>
  /\ pass_encs = <<>> /\ rev_encs = <<>> /\ pass_tmp = <<>> /\ rev_tmp = <<>>
  /\ index = 0 /\ loss = Unbound /\ forward_acc = Unbound
  /\ lossArgs = <<>>
  /\ log = <<>>

locals == <<microbatch_inds, pass_mbs, rev_mbs, pass_encs, rev_encs, pass_tmp,
            rev_tmp, index, loss, forward_acc, lossArgs>>
inputs == <<passages, reviews, config>>
model == <<selfConfig, logit_scale>>
outcome == <<calls, status, result>>

\* the caller invokes train_step(passages, reviews, config, opt, scaler)
Call ==
  /\ pc = "idle" /\ calls < MaxCalls
  /\ \E n \in 0..MaxN, m \in 1..MaxM, gc \in ClipValues :
       /\ passages' = Batch("passages", n)
       /\ reviews' = Batch("reviews", n)
       /\ config' = [microbatch_size |-> m, grad_clip |-> gc]
  /\ calls' = calls + 1 /\ status' = "running"
  /\ result' = [k \in {} |-> Unbound]
  /\ microbatch_inds' = <<>> /\ pass_mbs' = <<>> /\ rev_mbs' = <<>>
  /\ pass_encs' = <<>> /\ rev_encs' = <<>> /\ pass_tmp' = <<>> /\ rev_tmp' = <<>>
  /\ index' = 0 /\ loss' = Unbound /\ forward_acc' = Unbound /\ lossArgs' = <<>>
  /\ log' = <<>>
  /\ pc' = "indices"
  /\ UNCHANGED <<model, grad>>

GenerateIndices ==
  /\ pc = "indices"
  /\ microbatch_inds' = generate_indices(Len(passages[1]), config.microbatch_size)
  /\ pc' = "split"
  /\ UNCHANGED <<outcome, model, grad, inputs, pass_mbs, rev_mbs, pass_encs,
                 rev_encs, pass_tmp, rev_tmp, index, loss, forward_acc, lossArgs, log>>

SplitMicrobatches ==
  /\ pc = "split"
  /\ pass_mbs' = SplitPass(passages, microbatch_inds)
  /\ rev_mbs' = SplitRev(reviews, microbatch_inds)
  /\ pc' = "embed"
  /\ UNCHANGED <<outcome, model, grad, inputs, microbatch_inds, pass_encs,
                 rev_encs, pass_tmp, rev_tmp, index, loss, forward_acc, lossArgs, log>>

CalculateEmbeddings ==
  /\ pc = "embed"
  /\ pass_encs' = calculate_embeddings(pass_mbs, rev_mbs)[1]
  /\ rev_encs' = calculate_embeddings(pass_mbs, rev_mbs)[2]
  /\ log' = Append(log, Event("build_cache", "none", -1, -1))
  /\ pc' = "zero"
  /\ UNCHANGED <<outcome, model, grad, inputs, microbatch_inds, pass_mbs, rev_mbs,
                 pass_tmp, rev_tmp, index, loss, forward_acc, lossArgs>>

ZeroGradSkipped ==
  /\ pc = "zero"
  /\ log' = Append(log, Event("zero_grad", "none", -1, -1))
  /\ index' = 0
  /\ pc' = "pass"
  /\ UNCHANGED <<outcome, model, grad, inputs, microbatch_inds, pass_mbs, rev_mbs,
                 pass_encs, rev_encs, pass_tmp, rev_tmp, loss, forward_acc, lossArgs>>

ZeroGrad ==
  /\ pc = "zero"
  /\ grad' = EmptyBag
  /\ log' = Append(log, Event("zero_grad", "none", -1, -1))
  /\ index' = 0
  /\ pc' = "pass"
  /\ UNCHANGED <<outcome, model, inputs, microbatch_inds, pass_mbs, rev_mbs,
                 pass_encs, rev_encs, pass_tmp, rev_tmp, loss, forward_acc, lossArgs>>

\* `for index, mb in enumerate(mbs)`: is there a group at position i
MoreGroupsSkipLast(i, mbs) == i < Len(mbs) - 1

MoreGroups(i, mbs) == i < Len(mbs)

\* lines 63-73: one iteration of the passage sweep
PassageIter ==
  /\ pc = "pass" /\ MoreGroups(index, pass_mbs)
  /\ LET passage == pass_mbs[index + 1][1]
         mask == pass_mbs[index + 1][2]
         cs == CopyThenSet(pass_encs, index, encode_passages(passage, mask))
         P == Cat(cs.tmp)
         R == Cat(rev_encs)
     IN /\ pass_encs' = cs.orig
        /\ pass_tmp' = cs.tmp
        /\ lossArgs' = <<P, R>>
        /\ loss' = Scalar("loss", "pass", index)
        /\ forward_acc' = Scalar("acc", "pass", index)
        /\ grad' = grad (+) Backward(P, R, logit_scale, calls)
        /\ log' = Append(log, Event("backward", "pass", index, -1))
  /\ index' = index + 1
  /\ UNCHANGED <<pc, outcome, model, inputs, microbatch_inds, pass_mbs, rev_mbs,
                 rev_encs, rev_tmp>>

\* the passage loop is exhausted, the review loop starts
PassageSweepEnd ==
  /\ pc = "pass" /\ ~MoreGroups(index, pass_mbs)
  /\ index' = 0
  /\ pc' = "rev"
  /\ UNCHANGED <<outcome, model, grad, inputs, microbatch_inds, pass_mbs, rev_mbs,
                 pass_encs, rev_encs, pass_tmp, rev_tmp, loss, forward_acc,
                 lossArgs, log>>

\* `loss, _ = self.contrastive_loss(...)`: the accuracy of a review-sweep
\* loss computation is discarded
ReviewAccOverwrites(old, new) == new

ReviewAcc(old, new) == old

\* lines 75-85: one iteration of the review sweep
ReviewIter ==
  /\ pc = "rev" /\ MoreGroups(index, rev_mbs)
  /\ LET review == rev_mbs[index + 1][1]
         mask == rev_mbs[index + 1][2]
         cs == CopyThenSet(rev_encs, index, encode_reviews(review, mask))
         P == Cat(pass_encs)
         R == Cat(cs.tmp)
     IN /\ rev_encs' = cs.orig
        /\ rev_tmp' = cs.tmp
        /\ lossArgs' = <<P, R>>
        /\ loss' = Scalar("loss", "rev", index)
        /\ forward_acc' = ReviewAcc(forward_acc, Scalar("acc", "rev", index))
        /\ grad' = grad (+) Backward(P, R, logit_scale, calls)
        /\ log' = Append(log, Event("backward", "rev", index, -1))
  /\ index' = index + 1
  /\ UNCHANGED <<pc, outcome, model, inputs, microbatch_inds, pass_mbs, rev_mbs,
                 pass_encs, pass_tmp>>

ReviewSweepEnd ==
  /\ pc = "rev" /\ ~MoreGroups(index, rev_mbs)
  /\ pc' = "clip"
  /\ UNCHANGED <<outcome, model, grad, inputs, locals, log>>

\* lines 88-89: scaler.unscale_(opt) then clip_grad_norm_(parameters, max_norm)
ClipOpsSwapped(max_norm) ==
  << Event("clip", "none", -1, max_norm), Event("unscale", "none", -1, -1) >>

ClipOps(max_norm) ==
  << Event("unscale", "none", -1, -1), Event("clip", "none", -1, max_norm) >>

\* lines 87-89: the gate reads self.config.grad_clip (the model config), the
\* norm is clipped to config.grad_clip (the train config)
Clip ==
  /\ pc = "clip"
  /\ log' = IF selfConfig.grad_clip # NoClip
            THEN log \o ClipOps(config.grad_clip) ELSE log
  /\ pc' = "step"
  /\ UNCHANGED <<outcome, model, grad, inputs, locals>>

\* line 91: scaler.step(opt); the optimizer reads the gradient buffers and
\* moves the parameters that have a gradient
ScalerStep ==
  /\ pc = "step"
  /\ log' = Append(log, Event("opt_step", "none", -1, -1))
  /\ IF BagIn(Contribution("logit_scale", -1, calls), grad)
       THEN logit_scale' \in LogitValues
       ELSE logit_scale' = logit_scale
  /\ pc' = "update"
  /\ UNCHANGED <<outcome, selfConfig, grad, inputs, locals>>

\* line 92: scaler.update()
ScalerUpdate ==
  /\ pc = "update"
  /\ log' = Append(log, Event("scaler_update", "none", -1, -1))
  /\ pc' = "ret"
  /\ UNCHANGED <<outcome, model, grad, inputs, locals>>

\* lines 93-97 with both names bound: the diagnostics are returned
Return ==
  /\ pc = "ret" /\ loss # Unbound /\ forward_acc # Unbound
  /\ result' = [k \in {"Loss/Contrastive", "Loss/Train", "Acc/Forward"} |->
                  IF k = "Acc/Forward" THEN forward_acc ELSE loss]
  /\ status' = "returned"
  /\ pc' = "idle"
  /\ UNCHANGED <<calls, model, grad, inputs, locals, log>>

\* lines 93-97 when no loop iteration ran: `loss` was never assigned and
\* evaluating the return expression raises
ReturnRaises ==
  /\ pc = "ret" /\ (loss = Unbound \/ forward_acc = Unbound)
  /\ status' = "raised"
  /\ pc' = "idle"
  /\ UNCHANGED <<calls, result, model, grad, inputs, locals, log>>

Next ==
  \/ Call
  \/ GenerateIndices
  \/ SplitMicrobatches
  \/ CalculateEmbeddings
  \/ ZeroGrad
  \/ PassageIter
  \/ PassageSweepEnd
  \/ ReviewIter
  \/ ReviewSweepEnd
  \/ Clip
  \/ ScalerStep
  \/ ScalerUpdate
  \/ Return
  \/ ReturnRaises

Spec == Init /\ [][Next]_vars

\* ------------------------------------------------------ derived quantities
N == Len(passages[1])
K == Len(microbatch_inds)
Ops(op) == SelectSeq(log, LAMBDA e : e.op = op)
Backwards(sweep) == SelectSeq(log, LAMBDA e : e.op = "backward" /\ e.sweep = sweep)
Finished == pc = "idle" /\ status \in {"returned", "raised"}

M == config.microbatch_size
InCall == status = "running"
AfterSweeps == pc \in {"clip", "step", "update", "ret"}
AfterClip == pc \in {"step", "update", "ret"}
Range0(n) == [e \in 1..n |-> e - 1]
LastIsBackward(sweep) ==
  /\ log # <<>>
  /\ log[Len(log)].op = "backward"
  /\ log[Len(log)].sweep = sweep
Detached(encs) == \A g \in 1..Len(encs) : \A k \in 1..Len(encs[g]) : ~encs[g][k].grad
LiveExamples(E) == {E[k].ex : k \in {j \in 1..Len(E) : E[j].grad}}
GroupExamples(g) == {microbatch_inds[g][k] : k \in 1..Len(microbatch_inds[g])}
Copies(t, n) == IF n > 0 THEN [x \in {t} |-> n] ELSE EmptyBag
GradOf(p) == {<<t, CopiesIn(t, grad)>> : t \in {u \in BagToSet(grad) : u.param = p}}

\* -------------------------------------------------------------------- C1
\* C1: after the passage sweep and the review sweep of a step on N >= 1
\* examples, the accumulated gradient of every trainable parameter (both
\* towers and logit_scale) is the full-batch gradient: every full-batch
\* contribution exactly once, whatever the number of groups.
C1_FullBatchEquivalence ==
  (InCall /\ AfterSweeps /\ N >= 1) => grad = FullBatchGrad(N, logit_scale, calls)

\* -------------------------------------------------------------------- C2
\* C2: the step unscales and clips if and only if the grad_clip of the train
\* config passed to it is not the sentinel, it clips to that threshold, and
\* with the sentinel neither unscale nor clip is invoked.
C2_ClipGatedByTrainConfig ==
  (InCall /\ AfterClip) =>
     /\ (config.grad_clip # NoClip) <=> (Len(Ops("unscale")) = 1 /\ Len(Ops("clip")) = 1)
     /\ \A i \in 1..Len(log) : log[i].op = "clip" => log[i].arg = config.grad_clip
     /\ (config.grad_clip = NoClip) => (Ops("unscale") = <<>> /\ Ops("clip") = <<>>)

\* -------------------------------------------------------------------- C3
\* C3: a step over K >= 1 groups returns a mapping with exactly the keys
\* Loss/Contrastive, Loss/Train and Acc/Forward; both losses are the loss of
\* the review sweep's iteration K-1, the accuracy is the one computed in the
\* passage sweep's iteration K-1.
C3_Diagnostics ==
  /\ (Finished /\ K >= 1) => status = "returned"
  /\ (Finished /\ status = "returned") =>
       /\ K >= 1
       /\ DOMAIN result = {"Loss/Contrastive", "Loss/Train", "Acc/Forward"}
       /\ result["Loss/Contrastive"] = result["Loss/Train"]
       /\ result["Loss/Train"] =
            [kind |-> "loss", call |-> calls, sweep |-> "rev", index |-> K - 1]
       /\ result["Acc/Forward"] =
            [kind |-> "acc", call |-> calls, sweep |-> "pass", index |-> K - 1]

C3_Witness == Finished /\ status = "returned" /\ K >= 2

\* -------------------------------------------------------------------- C4
\* C4: for every N >= 0 and M > 0 the index groups cover [0, N) exactly once
\* in ascending order with no group larger than M, and group i of pass_mbs
\* and group i of rev_mbs hold the rows of the same example positions.
C4_PartitionAligned ==
  /\ (status # "none" /\ pc # "indices") =>
       /\ Cat(microbatch_inds) = Range0(N)
       /\ \A g \in 1..K : Len(microbatch_inds[g]) >= 1 /\ Len(microbatch_inds[g]) <= M
  /\ (status # "none" /\ pc \notin {"indices", "split"}) =>
       /\ Len(pass_mbs) = K /\ Len(rev_mbs) = K
       /\ \A g \in 1..K : \A c \in 1..2 :
            /\ Len(pass_mbs[g][c]) = Len(microbatch_inds[g])
            /\ Len(rev_mbs[g][c]) = Len(microbatch_inds[g])
            /\ \A k \in 1..Len(microbatch_inds[g]) :
                 /\ pass_mbs[g][c][k] = [batch |-> "passages", ex |-> microbatch_inds[g][k]]
                 /\ rev_mbs[g][c][k] = [batch |-> "reviews", ex |-> microbatch_inds[g][k]]

C4_Witness == pc = "embed" /\ K >= 2 /\ Len(microbatch_inds[K]) < M

\* -------------------------------------------------------------------- C5
\* C5: with K groups each tower's cache has exactly K entries and one step
\* performs exactly 2K backward calls, K of the passage sweep followed by K
\* of the review sweep, followed by exactly one optimizer step and one
\* scaler update; N=4, M=2 gives the groups [0,1], [2,3].
C5_BackwardCount ==
  /\ (status # "none" /\ pc # "indices") => K = CeilDiv(N, M)
  /\ (status # "none" /\ pc # "indices" /\ N = 4 /\ M = 2) =>
       microbatch_inds = << <<0, 1>>, <<2, 3>> >>
  /\ (status # "none" /\ pc \notin {"indices", "split", "embed"}) =>
       Len(pass_encs) = K /\ Len(rev_encs) = K
  /\ Finished =>
       /\ Len(Backwards("pass")) = K /\ Len(Backwards("rev")) = K
       /\ Len(Ops("backward")) = 2 * K
       /\ Ops("backward") = Backwards("pass") \o Backwards("rev")
       /\ Len(Ops("opt_step")) = 1 /\ Len(Ops("scaler_update")) = 1
       /\ log[Len(log)].op = "scaler_update"
       /\ log[Len(log) - 1].op = "opt_step"

C5_Witness == Finished /\ status = "returned" /\ N = 4 /\ M = 2

\* -------------------------------------------------------------------- C6
StageOfClaim(e) ==
  CASE e.op = "zero_grad" -> 1
    [] e.op = "build_cache" -> 2
    [] e.op = "backward" /\ e.sweep = "pass" -> 3
    [] e.op = "backward" /\ e.sweep = "rev" -> 4
    [] e.op = "unscale" -> 5
    [] e.op = "clip" -> 6
    [] e.op = "opt_step" -> 7
    [] e.op = "scaler_update" -> 8

StageOfCode(e) ==
  CASE e.op = "build_cache" -> 1
    [] e.op = "zero_grad" -> 2
    [] e.op = "backward" /\ e.sweep = "pass" -> 3
    [] e.op = "backward" /\ e.sweep = "rev" -> 4
    [] e.op = "unscale" -> 5
    [] e.op = "clip" -> 6
    [] e.op = "opt_step" -> 7
    [] e.op = "scaler_update" -> 8

InStageOrder(Stage(_)) ==
  \A i, j \in 1..Len(log) : i < j => Stage(log[i]) <= Stage(log[j])

SweepsAscending ==
  \A s \in {"pass", "rev"} :
     \A i \in 1..Len(Backwards(s)) : Backwards(s)[i].index = i - 1

ClipAfterUnscale ==
  \A i \in 1..Len(log) :
     /\ log[i].op = "clip" => (i > 1 /\ log[i - 1].op = "unscale")
     /\ log[i].op = "unscale" => (i < Len(log) /\ log[i + 1].op = "clip")

StagesComplete ==
  Finished =>
     /\ Len(Ops("build_cache")) = 1 /\ Len(Ops("zero_grad")) = 1
     /\ Len(Backwards("pass")) = K /\ Len(Backwards("rev")) = K
     /\ Len(Ops("unscale")) = Len(Ops("clip")) /\ Len(Ops("clip")) <= 1
     /\ Len(Ops("opt_step")) = 1 /\ Len(Ops("scaler_update")) = 1

\* C6 as stated: the operations of a step occur in the order zero gradients,
\* build caches, passage sweep ascending, review sweep ascending, unscale
\* then clip, optimizer step, scaler update.
C6_OrderAsClaimed ==
  InStageOrder(StageOfClaim) /\ SweepsAscending /\ ClipAfterUnscale

\* C6 amended: the operations of a step occur in the order build caches,
\* zero gradients, passage sweep over 0..K-1 ascending, review sweep over
\* 0..K-1 ascending, unscale then clip when the step clips, optimizer step,
\* scaler update; no operation of a later stage precedes an earlier one.
C6_StepOrder ==
  InStageOrder(StageOfCode) /\ SweepsAscending /\ ClipAfterUnscale /\ StagesComplete

C6_Witness == Finished /\ K >= 2 /\ Len(Ops("clip")) = 1

\* -------------------------------------------------------------------- C7
\* what the backward calls of the current call add up to
OwnContributions ==
  SetToBag({Contribution(p, e, calls) : p \in PassParams \cup RevParams, e \in 0..(N - 1)})
  (+) Copies(Contribution("logit_scale", -1, calls),
             IF ScaleLive(logit_scale) THEN Len(Ops("backward")) ELSE 0)

ResetOncePerCall ==
  /\ (InCall /\ pc \in {"pass", "rev", "clip", "step", "update", "ret"}) =>
        Len(Ops("zero_grad")) = 1
  /\ \A i \in 1..Len(log) :
        log[i].op = "backward" => \E j \in 1..(i - 1) : log[j].op = "zero_grad"

ConsumedIsOwn ==
  (InCall /\ pc = "step") =>
     /\ \A t \in BagToSet(grad) : t.call = calls
     /\ grad = OwnContributions

AccumulateOnly ==
  (pc \in {"pass", "rev", "clip"}) => (grad \sqsubseteq grad')

\* C7: over any sequence of calls the gradient buffers are reset exactly once
\* per call before the call's first backward, are only added to between the
\* reset and the clip / optimizer step, and what the optimizer step of a call
\* consumes is exactly what that call's own backward calls contributed.
C7_GradientBufferDiscipline ==
  [](ResetOncePerCall /\ ConsumedIsOwn) /\ [][AccumulateOnly]_vars

C7_Witness == InCall /\ pc = "step" /\ calls >= 2 /\ N >= 2 /\ K >= 2

\* -------------------------------------------------------------------- C8
\* C8: a backward call of the passage sweep writes gradient only into the
\* passage encoder and passage projector and leaves the gradient of every
\* other trainable parameter unchanged; a backward call of the review sweep
\* writes into review-tower parameters only.
C8_GradientLocality ==
  [][ /\ (pc = "pass" /\ index' = index + 1) =>
           \A p \in AllParams \ PassParams : GradOf(p)' = GradOf(p)
      /\ (pc = "rev" /\ index' = index + 1) =>
           \A p \in AllParams \ RevParams : GradOf(p)' = GradOf(p) ]_vars

\* -------------------------------------------------------------------- C9
CachesFrozen ==
  (calls' = calls /\ pc \notin {"indices", "split", "embed"}) =>
     (pass_encs' = pass_encs /\ rev_encs' = rev_encs)

OneLivePosition ==
  /\ Detached(pass_encs) /\ Detached(rev_encs)
  /\ Cat(pass_encs) = [k \in 1..Len(Cat(pass_encs)) |->
        [tower |-> "passage", batch |-> "passages", ex |-> k - 1, mask |-> k - 1, grad |-> FALSE]]
  /\ Cat(rev_encs) = [k \in 1..Len(Cat(rev_encs)) |->
        [tower |-> "review", batch |-> "reviews", ex |-> k - 1, mask |-> k - 1, grad |-> FALSE]]
  /\ LastIsBackward("pass") =>
       LET i == log[Len(log)].index + 1 IN
       /\ Len(pass_tmp) = K
       /\ \A g \in 1..K : (g # i) <=> (pass_tmp[g] = pass_encs[g])
       /\ lossArgs = <<Cat(pass_tmp), Cat(rev_encs)>>
       /\ LiveExamples(lossArgs[1]) = GroupExamples(i)
       /\ LiveExamples(lossArgs[2]) = {}
  /\ LastIsBackward("rev") =>
       LET i == log[Len(log)].index + 1 IN
       /\ Len(rev_tmp) = K
       /\ \A g \in 1..K : (g # i) <=> (rev_tmp[g] = rev_encs[g])
       /\ lossArgs = <<Cat(pass_encs), Cat(rev_tmp)>>
       /\ LiveExamples(lossArgs[2]) = GroupExamples(i)
       /\ LiveExamples(lossArgs[1]) = {}
  /\ (LastIsBackward("pass") \/ LastIsBackward("rev")) =>
       /\ Len(lossArgs[1]) = N /\ Len(lossArgs[2]) = N
       /\ \A k \in 1..N :
            /\ lossArgs[1][k].ex = k - 1 /\ lossArgs[1][k].tower = "passage"
            /\ lossArgs[2][k].ex = k - 1 /\ lossArgs[2][k].tower = "review"

\* C9: the caches built by the no-grad pass are not mutated for the rest of
\* the step; in iteration i the working cache of the swept tower differs from
\* the built cache at position i only, the other tower's set is the detached
\* cache, so each loss computation has exactly one gradient-live microbatch
\* position and the concatenation keeps the original example order.
C9_FreshCopyPerIteration ==
  []OneLivePosition /\ [][CachesFrozen]_vars

C9_Witness == LastIsBackward("pass") /\ log[Len(log)].index >= 1 /\ K >= 3

\* ------------------------------------------------------------------- C10
\* C10: a step on an empty batch (N = 0) fails without performing an
\* optimizer step or a scaler update and without returning diagnostics; a
\* step that fails has performed no optimizer update.
C10_EmptyBatchFailsBeforeStep ==
  /\ (Finished /\ N = 0) =>
       (status = "raised" /\ Ops("opt_step") = <<>> /\ Ops("scaler_update") = <<>>)
  /\ (Finished /\ status = "raised") => Ops("opt_step") = <<>>
====
